---- MODULE Spec2Model ----
(***************************************************************************)
(* The LLM provider adapter layer of AI_NovelGenerator (llm_adapters.py):  *)
(* the base-URL normaliser, the proxy resolver, the provider adapters and  *)
(* the adapter factory.                                                    *)
(*                                                                         *)
(* Text is modelled as a sequence of one-character strings, so that        *)
(* trimming, suffix tests and substring tests are computed, not assumed.   *)
(***************************************************************************)
EXTENDS Integers, Sequences, FiniteSets, TLC

VARIABLES
    env,        \* os.environ, restricted to the four proxy variables
    endpoint,   \* os.environ['GOOGLE_AI_STUDIO_API_ENDPOINT']
    adapter,    \* the adapter object most recently constructed (if any)
    last,       \* what the most recently completed call did and returned
    url,        \* the text handed to the function under test
    norm,       \* the successive results of check_base_url on url
    workers     \* the threads that are inside detect_and_setup_proxy

vars == <<env, endpoint, adapter, last, url, norm, workers>>

(***************************************************************************)
(* Bounds of the model.                                                    *)
(***************************************************************************)
MaxUrlLen == 5      \* longest base_url, in characters, given to check_base_url
MaxPad == 1         \* most blanks put before / after an interface_format
MaxAzureOpenAIBody == 7   \* longest Azure OpenAI base_url after its scheme
MaxAzureAIBody == 6       \* longest Azure AI base_url after its scheme

(***************************************************************************)
(* Text helpers (Python str methods).                                      *)
(***************************************************************************)
SeqsUpTo(S, n) == UNION { [1..k -> S] : k \in 0..n }

IsSpace(c) == c \in {" ", "\t"}

IsDigit(c) == c \in {"0", "1", "2", "3", "4", "5", "6", "7", "8", "9"}

\* s.endswith(suffix)
EndsWith(s, suffix) ==
    /\ Len(suffix) <= Len(s)
    /\ SubSeq(s, Len(s) - Len(suffix) + 1, Len(s)) = suffix

\* s.startswith(prefix)
StartsWith(s, prefix) ==
    /\ Len(prefix) <= Len(s)
    /\ SubSeq(s, 1, Len(prefix)) = prefix

\* sub in s
Contains(s, sub) ==
    \E i \in 1..(Len(s) - Len(sub) + 1) : SubSeq(s, i, i + Len(sub) - 1) = sub

\* s.rstrip(c): every trailing occurrence of the character c is removed
RECURSIVE RStripChar(_, _)
RStripChar(s, c) ==
    IF s # <<>> /\ s[Len(s)] = c THEN RStripChar(SubSeq(s, 1, Len(s) - 1), c) ELSE s

RECURSIVE RStripSpace(_)
RStripSpace(s) ==
    IF s # <<>> /\ IsSpace(s[Len(s)]) THEN RStripSpace(SubSeq(s, 1, Len(s) - 1)) ELSE s

RECURSIVE LStripSpace(_)
LStripSpace(s) ==
    IF s # <<>> /\ IsSpace(s[1]) THEN LStripSpace(Tail(s)) ELSE s

\* s.strip()
Strip(s) == LStripSpace(RStripSpace(s))

UpperLetters == <<"A", "B", "C", "D", "E", "F", "G", "H", "I", "J", "K", "L", "M", "N", "O", "P", "Q", "R", "S", "T", "U", "V", "W", "X", "Y", "Z">>

LowerLetters == <<"a", "b", "c", "d", "e", "f", "g", "h", "i", "j", "k", "l", "m", "n", "o", "p", "q", "r", "s", "t", "u", "v", "w", "x", "y", "z">>

LowerOf ==
    [c \in { UpperLetters[i] : i \in 1..Len(UpperLetters) } |->
        LowerLetters[CHOOSE i \in 1..Len(UpperLetters) : UpperLetters[i] = c]]

UpperOf ==
    [c \in { LowerLetters[i] : i \in 1..Len(LowerLetters) } |->
        UpperLetters[CHOOSE i \in 1..Len(LowerLetters) : LowerLetters[i] = c]]

\* c.lower() for one character (a CJK character has no case)
LowerChar(c) == IF c \in DOMAIN LowerOf THEN LowerOf[c] ELSE c

UpperChar(c) == IF c \in DOMAIN UpperOf THEN UpperOf[c] ELSE c

\* s.lower()
Lower(s) == [i \in 1..Len(s) |-> LowerChar(s[i])]

\* s.upper()
Upper(s) == [i \in 1..Len(s) |-> UpperChar(s[i])]

(***************************************************************************)
(* check_base_url                                                          *)
(***************************************************************************)
V1 == <<"/", "v", "1">>

\* re.search(r'/v\d+$', s)
SearchVersionSuffix(s) ==
    \E i \in 1..Len(s) :
        /\ s[i] = "/"
        /\ i + 2 <= Len(s)
        /\ s[i + 1] = "v"
        /\ \A j \in (i + 2)..Len(s) : IsDigit(s[j])

\* A normaliser that appends /v1 without looking for an existing version.
check_base_url_always_append(u) ==
    LET s == Strip(u) IN
    IF s = <<>> THEN s
    ELSE IF EndsWith(s, <<"#">>) THEN RStripChar(s, "#")
    ELSE RStripChar(s, "/") \o V1

\* A normaliser that leaves blanks around the URL in place.
check_base_url_no_strip(u) ==
    IF u = <<>> THEN u
    ELSE IF EndsWith(u, <<"#">>) THEN RStripChar(u, "#")
    ELSE IF ~SearchVersionSuffix(u) /\ ~Contains(u, V1) THEN RStripChar(u, "/") \o V1
    ELSE u

check_base_url(u) ==
    LET s == Strip(u) IN
    IF s = <<>> THEN s
    ELSE IF EndsWith(s, <<"#">>) THEN RStripChar(s, "#")
    ELSE IF ~SearchVersionSuffix(s)
         THEN IF ~Contains(s, V1) THEN RStripChar(s, "/") \o V1 ELSE s
         ELSE s

(***************************************************************************)
(* State of the process.                                                   *)
(***************************************************************************)
\* os.environ as on a POSIX system, where the names are case-sensitive.
ProxyVars == {"HTTP_PROXY", "HTTPS_PROXY", "http_proxy", "https_proxy"}

Unset == "<unset>"          \* the variable is not in os.environ

NoEnv == [v \in ProxyVars |-> Unset]

NoEndpoint == [set |-> FALSE, value |-> <<>>]

NoClient == [class |-> "none", base_url |-> <<>>, api_key |-> <<>>, model |-> <<>>]

NoAdapter ==
    [variant |-> "none", api_key |-> <<>>, base_url |-> <<>>, model_name |-> <<>>,
     max_tokens |-> 0, temperature |-> "", timeout |-> 0,
     azure_endpoint |-> <<>>, azure_deployment |-> <<>>, api_version |-> <<>>,
     endpoint |-> <<>>, client |-> NoClient]

\* The record of a call: its inputs, what it did (trace, in order) and what
\* it returned or raised.  before / endpointBefore are the globals when the
\* call started; tcp is what each candidate port did for a call of the
\* resolver and args the pair given to set_manual_proxy (empty for every
\* other call); client is the transport client an invoke issued its request
\* on.
NoCall ==
    [op |-> "none", ok |-> FALSE, text |-> <<>>, raised |-> "none",
     message |-> <<>>, trace |-> <<>>, before |-> NoEnv,
     endpointBefore |-> NoEndpoint, id |-> <<>>, base_url |-> <<>>,
     response |-> "none", selected |-> "none", tcp |-> <<>>, args |-> <<>>,
     client |-> NoClient]

\* No thread is inside the resolver.
NoWorkers == [tcp |-> <<>>, th |-> <<>>, writes |-> <<>>]

\* The call record of operation op started in the current state.
Call(op) == [NoCall EXCEPT !.op = op, !.before = env, !.endpointBefore = endpoint]

(***************************************************************************)
(* Events of a call's trace.                                               *)
(***************************************************************************)
EvProbe == "GET generativelanguage.googleapis.com"   \* test_google_connectivity
EvResolve == "detect_and_setup_proxy"                \* the resolver was entered
EvRequest == "request"                               \* one call of the transport client
EvLog == "log"                                       \* logging.info / warning / error
EvDebug == "log.debug"
EvSleep == "sleep"
EvSetEnv == "os.environ[...] = ..."                  \* the proxy variables are assigned

\* The number of occurrences of event e in trace t.
Count(t, e) == Cardinality({ i \in 1..Len(t) : t[i] = e })

(***************************************************************************)
(* detect_and_setup_proxy, test_google_connectivity, set_manual_proxy,     *)
(* clear_proxy                                                             *)
(***************************************************************************)
proxy_configs ==
    << [http |-> "http://127.0.0.1:7890", https |-> "http://127.0.0.1:7890"],
       [http |-> "socks5://127.0.0.1:7891", https |-> "socks5://127.0.0.1:7891"],
       [http |-> "http://127.0.0.1:8080", https |-> "http://127.0.0.1:8080"],
       [http |-> "http://127.0.0.1:1080", https |-> "http://127.0.0.1:1080"] >>

\* The TCP connect to candidate i (host and port parsed from its http URL).
TcpEvents ==
    << "connect 127.0.0.1:7890", "connect 127.0.0.1:7891",
       "connect 127.0.0.1:8080", "connect 127.0.0.1:1080" >>

EvTcp(i) == TcpEvents[i]

IsTcp(e) == \E i \in 1..Len(proxy_configs) : e = EvTcp(i)

\* What a TCP connect can do: "open" (connect_ex returns 0), "closed" (it
\* returns an error code) or "error" (the socket call raises).

\* bool(os.environ.get(name))
Truthy(v) == v # Unset /\ v # ""

\* Assignments that leave out the lower-case names.
SetProxyVars_upper_only(e, http, https) ==
    [e EXCEPT !["HTTP_PROXY"] = http, !["HTTPS_PROXY"] = https]

\* The four assignments to os.environ made for a proxy pair.
SetProxyVars(e, http, https) ==
    [e EXCEPT !["HTTP_PROXY"] = http, !["HTTPS_PROXY"] = https,
              !["http_proxy"] = http, !["https_proxy"] = https]

\* The for loop over proxy_configs, from candidate i on.
RECURSIVE ProbeFrom(_, _, _)
ProbeFrom(i, e, tcp) ==
    IF i > Len(proxy_configs)
    THEN [ok |-> FALSE, env |-> e, trace |-> <<EvLog>>]
    ELSE IF tcp[i] = "open"
    THEN [ok |-> TRUE,
          env |-> SetProxyVars(e, proxy_configs[i].http, proxy_configs[i].https),
          trace |-> <<EvTcp(i), EvSetEnv, EvLog>>]
    ELSE LET rest == ProbeFrom(i + 1, e, tcp) IN
         [rest EXCEPT !.trace =
             <<EvTcp(i)>> \o (IF tcp[i] = "error" THEN <<EvDebug>> ELSE <<>>) \o @]

\* if os.environ.get('HTTP_PROXY') or os.environ.get('HTTPS_PROXY')
AlreadyConfigured(e) == Truthy(e["HTTP_PROXY"]) \/ Truthy(e["HTTPS_PROXY"])

\* A resolver that starts at the second candidate.
detect_and_setup_proxy_skips_first(e, tcp) ==
    IF AlreadyConfigured(e)
    THEN [ok |-> TRUE, env |-> e, trace |-> <<EvResolve, EvLog>>]
    ELSE LET r == ProbeFrom(2, e, tcp) IN [r EXCEPT !.trace = <<EvResolve>> \o @]

\* A resolver that reports success whatever the candidates did.
detect_and_setup_proxy_reports_success(e, tcp) ==
    IF AlreadyConfigured(e)
    THEN [ok |-> TRUE, env |-> e, trace |-> <<EvResolve, EvLog>>]
    ELSE LET r == ProbeFrom(1, e, tcp) IN
         [r EXCEPT !.trace = <<EvResolve>> \o @, !.ok = TRUE]

detect_and_setup_proxy(e, tcp) ==
    IF AlreadyConfigured(e)
    THEN [ok |-> TRUE, env |-> e, trace |-> <<EvResolve, EvLog>>]
    ELSE LET r == ProbeFrom(1, e, tcp) IN [r EXCEPT !.trace = <<EvResolve>> \o @]

\* test_google_connectivity: one GET; reachable is whether it answered 200
\* (an exception is caught and gives False).
test_google_connectivity(reachable) ==
    [ok |-> reachable,
     trace |-> <<EvProbe>> \o (IF reachable THEN <<>> ELSE <<EvDebug>>)]

NoneArg == "<None>"         \* the default https_proxy=None

\* A manual override that leaves the HTTPS variables alone when https_proxy
\* is omitted.
set_manual_proxy_no_default(e, http_proxy, https_proxy, reachable) ==
    LET probe == test_google_connectivity(reachable)
    IN  [ok |-> probe.ok,
         env |-> IF https_proxy = NoneArg
                 THEN [e EXCEPT !["HTTP_PROXY"] = http_proxy, !["http_proxy"] = http_proxy]
                 ELSE SetProxyVars(e, http_proxy, https_proxy),
         trace |-> <<EvSetEnv, EvLog>> \o probe.trace \o <<EvLog>>]

set_manual_proxy(e, http_proxy, https_proxy, reachable) ==
    LET https == IF https_proxy = NoneArg THEN http_proxy ELSE https_proxy
        probe == test_google_connectivity(reachable)
    IN  [ok |-> probe.ok,
         env |-> SetProxyVars(e, http_proxy, https),
         trace |-> <<EvSetEnv, EvLog>> \o probe.trace \o <<EvLog>>]

clear_proxy(e) == [v \in ProxyVars |-> Unset]

(***************************************************************************)
(* The adapters: constructors.  Each gives the constructed object, or the  *)
(* exception raised, with the globals as the constructor leaves them.      *)
(***************************************************************************)
\* The arguments other than interface_format, base_url and api_key.
Params == [model_name |-> <<"m">>, max_tokens |-> 2048, temperature |-> "0.7",
           timeout |-> 600]

\* The assignments self.api_key = ... self.timeout = ... every constructor makes.
Configured(variant, api_key) ==
    [NoAdapter EXCEPT !.variant = variant, !.api_key = api_key,
                      !.model_name = Params.model_name,
                      !.max_tokens = Params.max_tokens,
                      !.temperature = Params.temperature,
                      !.timeout = Params.timeout]

Built(a, e, ep, trace) ==
    [raised |-> "none", message |-> <<>>, adapter |-> a, env |-> e,
     endpoint |-> ep, trace |-> trace]

Failed(exc, message, e, ep) ==
    [raised |-> exc, message |-> message, adapter |-> NoAdapter, env |-> e,
     endpoint |-> ep, trace |-> <<>>]

\* DeepSeekAdapter, OpenAIAdapter, MLStudioAdapter: ChatOpenAI on self.base_url
LangChainAdapter(variant, api_key, base_url) ==
    LET a == [Configured(variant, api_key) EXCEPT !.base_url = check_base_url(base_url)]
    IN  [a EXCEPT !.client = [class |-> "ChatOpenAI", base_url |-> a.base_url,
                              api_key |-> a.api_key, model |-> a.model_name]]

\* OllamaAdapter: an empty api_key becomes 'ollama'
OllamaAdapter(api_key, base_url) ==
    LET a == [Configured("OllamaAdapter", api_key) EXCEPT
                  !.base_url = check_base_url(base_url),
                  !.api_key = IF api_key = <<>> THEN <<"ollama">> ELSE api_key]
    IN  [a EXCEPT !.client = [class |-> "ChatOpenAI", base_url |-> a.base_url,
                              api_key |-> a.api_key, model |-> a.model_name]]

\* VolcanoEngineAIAdapter, SiliconFlowAdapter: OpenAI(base_url=base_url, ...)
RawUrlOpenAIAdapter(variant, api_key, base_url) ==
    LET a == [Configured(variant, api_key) EXCEPT !.base_url = check_base_url(base_url)]
    IN  [a EXCEPT !.client = [class |-> "OpenAI", base_url |-> base_url,
                              api_key |-> api_key, model |-> <<>>]]

\* GrokAdapter: OpenAI(base_url=self.base_url, ...)
GrokAdapter(api_key, base_url) ==
    LET a == [Configured("GrokAdapter", api_key) EXCEPT !.base_url = check_base_url(base_url)]
    IN  [a EXCEPT !.client = [class |-> "OpenAI", base_url |-> a.base_url,
                              api_key |-> a.api_key, model |-> <<>>]]

(***************************************************************************)
(* The Azure constructors.  A URL is a sequence of characters in which     *)
(* each literal of the two patterns is one element, so that re.match can   *)
(* be computed position by position.                                       *)
(***************************************************************************)
HTTPS == "https://"
OPENAI_DEPLOYMENTS == "/openai/deployments/"
CHAT_COMPLETIONS == "/chat/completions"
API_VERSION == "?api-version="
AZURE_AI_HOST == ".services.ai.azure.com"
MODELS == "/models"

\* re.match(r'https://(.+?)/openai/deployments/(.+?)/chat/completions\?api-version=(.+)', u):
\* the pairs <<i, j>> at which the two inner literals can stand, with all
\* three groups non-empty.
AzureOpenAISplits(u) ==
    { p \in (3..Len(u)) \X (5..Len(u)) :
        /\ u[1] = HTTPS
        /\ u[p[1]] = OPENAI_DEPLOYMENTS
        /\ p[2] >= p[1] + 2
        /\ p[2] + 2 <= Len(u)
        /\ u[p[2]] = CHAT_COMPLETIONS
        /\ u[p[2] + 1] = API_VERSION }

\* The match re.match reports: both (.+?) groups as short as they can be.
AzureOpenAIMatch(u) ==
    LET S == AzureOpenAISplits(u)
        i == CHOOSE i \in { p[1] : p \in S } : \A p \in S : i <= p[1]
        j == CHOOSE j \in { p[2] : p \in { q \in S : q[1] = i } } :
                 \A p \in { q \in S : q[1] = i } : j <= p[2]
    IN  [group1 |-> SubSeq(u, 2, i - 1),
         group2 |-> SubSeq(u, i + 1, j - 1),
         group3 |-> SubSeq(u, j + 2, Len(u))]

\* An AzureOpenAIAdapter that keeps the caller's model_name.
AzureOpenAIAdapter_keeps_model_name(api_key, base_url, e, ep) ==
    IF AzureOpenAISplits(base_url) = {}
    THEN Failed("ValueError", <<"Invalid Azure OpenAI base_url format">>, e, ep)
    ELSE LET m == AzureOpenAIMatch(base_url)
             a == [Configured("AzureOpenAIAdapter", api_key) EXCEPT
                       !.azure_endpoint = <<HTTPS>> \o m.group1,
                       !.azure_deployment = m.group2,
                       !.api_version = m.group3]
         IN  Built([a EXCEPT !.client =
                        [class |-> "AzureChatOpenAI", base_url |-> a.azure_endpoint,
                         api_key |-> a.api_key, model |-> a.azure_deployment]],
                   e, ep, <<>>)

AzureOpenAIAdapter(api_key, base_url, e, ep) ==
    IF AzureOpenAISplits(base_url) = {}
    THEN Failed("ValueError", <<"Invalid Azure OpenAI base_url format">>, e, ep)
    ELSE LET m == AzureOpenAIMatch(base_url)
             a == [Configured("AzureOpenAIAdapter", api_key) EXCEPT
                       !.azure_endpoint = <<HTTPS>> \o m.group1,
                       !.azure_deployment = m.group2,
                       !.api_version = m.group3,
                       !.model_name = m.group2]
         IN  Built([a EXCEPT !.client =
                        [class |-> "AzureChatOpenAI", base_url |-> a.azure_endpoint,
                         api_key |-> a.api_key, model |-> a.azure_deployment]],
                   e, ep, <<>>)

\* re.match(r'https://(.+?)\.services\.ai\.azure\.com(?:/models)?(?:/chat/completions)?(?:\?api-version=(.+))?', u):
\* the positions at which the host literal can stand after a non-empty group 1.
AzureAIHostAt(u) == { i \in 3..Len(u) : u[1] = HTTPS /\ u[i] = AZURE_AI_HOST }

\* The match re.match reports: group 1 as short as it can be, then each
\* optional part taken when it is there; nothing is required after them.
AzureAIMatch(u) ==
    LET i == CHOOSE i \in AzureAIHostAt(u) : \A k \in AzureAIHostAt(u) : i <= k
        At(k, lit) == k <= Len(u) /\ u[k] = lit
        p1 == IF At(i + 1, MODELS) THEN i + 2 ELSE i + 1
        p2 == IF At(p1, CHAT_COMPLETIONS) THEN p1 + 1 ELSE p1
        hasVersion == At(p2, API_VERSION) /\ p2 + 1 <= Len(u)
    IN  [group1 |-> SubSeq(u, 2, i - 1),
         group2 |-> IF hasVersion THEN SubSeq(u, p2 + 1, Len(u)) ELSE <<>>]

DefaultApiVersion == <<"2024-05-01-preview">>

InvalidAzureAI ==
    "Invalid Azure AI base_url format. Expected format: https://<endpoint>.services.ai.azure.com/models/chat/completions?api-version=xxx"

\* An AzureAIAdapter that keeps the URL as given for its endpoint.
AzureAIAdapter_raw_endpoint(api_key, base_url, e, ep) ==
    IF AzureAIHostAt(base_url) = {}
    THEN Failed("ValueError", <<InvalidAzureAI>>, e, ep)
    ELSE LET m == AzureAIMatch(base_url)
             a == [Configured("AzureAIAdapter", api_key) EXCEPT
                       !.endpoint = base_url,
                       !.api_version = IF m.group2 # <<>> THEN m.group2
                                       ELSE DefaultApiVersion,
                       !.base_url = base_url]
         IN  Built([a EXCEPT !.client =
                        [class |-> "ChatCompletionsClient", base_url |-> a.endpoint,
                         api_key |-> a.api_key, model |-> a.model_name]],
                   e, ep, <<>>)

AzureAIAdapter(api_key, base_url, e, ep) ==
    IF AzureAIHostAt(base_url) = {}
    THEN Failed("ValueError", <<InvalidAzureAI>>, e, ep)
    ELSE LET m == AzureAIMatch(base_url)
             canonical == <<HTTPS>> \o m.group1 \o <<AZURE_AI_HOST, MODELS>>
             a == [Configured("AzureAIAdapter", api_key) EXCEPT
                       !.endpoint = canonical,
                       !.api_version = IF m.group2 # <<>> THEN m.group2
                                       ELSE DefaultApiVersion,
                       !.base_url = canonical]
         IN  Built([a EXCEPT !.client =
                        [class |-> "ChatCompletionsClient", base_url |-> a.endpoint,
                         api_key |-> a.api_key, model |-> a.model_name]],
                   e, ep, <<>>)

(***************************************************************************)
(* GeminiAdapter.__init__: reach1, reach2 are what the two connectivity    *)
(* probes find and tcp what the candidate ports do, should they be tried.  *)
(***************************************************************************)
\* Diagnostics that run the resolver whatever the first probe found.
GeminiDiagnostics_always_resolves(e, reach1, reach2, tcp) ==
    LET p1 == test_google_connectivity(reach1)
        d == detect_and_setup_proxy(e, tcp)
    IN  IF d.ok
        THEN [env |-> d.env,
              trace |-> p1.trace \o <<EvLog>> \o d.trace \o <<EvSleep>>
                        \o test_google_connectivity(reach2).trace \o <<EvLog>>]
        ELSE [env |-> d.env, trace |-> p1.trace \o <<EvLog>> \o d.trace \o <<EvLog>>]

GeminiDiagnostics(e, reach1, reach2, tcp) ==
    LET p1 == test_google_connectivity(reach1) IN
    IF p1.ok
    THEN [env |-> e, trace |-> p1.trace \o <<EvLog>>]
    ELSE LET d == detect_and_setup_proxy(e, tcp) IN
         IF d.ok
         THEN [env |-> d.env,
               trace |-> p1.trace \o <<EvLog>> \o d.trace \o <<EvSleep>>
                         \o test_google_connectivity(reach2).trace \o <<EvLog>>]
         ELSE [env |-> d.env, trace |-> p1.trace \o <<EvLog>> \o d.trace \o <<EvLog>>]

\* A GeminiAdapter whose construction fails when Google stays out of reach
\* and no proxy is found.
GeminiAdapter_requires_connectivity(api_key, base_url, e, ep, reach1, reach2, tcp) ==
    LET diag == GeminiDiagnostics(e, reach1, reach2, tcp)
        a == Configured("GeminiAdapter", api_key)
    IN  IF ~reach1 /\ ~detect_and_setup_proxy(e, tcp).ok
        THEN [Failed("ConnectionError", <<>>, diag.env, ep) EXCEPT !.trace = diag.trace]
        ELSE Built([a EXCEPT !.client =
                        [class |-> "GenerativeModel", base_url |-> <<>>,
                         api_key |-> api_key, model |-> a.model_name]],
                   diag.env,
                   IF Strip(base_url) # <<>>
                   THEN [set |-> TRUE, value |-> Strip(base_url)] ELSE ep,
                   diag.trace)

\* A GeminiAdapter that writes the endpoint override whatever base_url is.
GeminiAdapter_always_sets_endpoint(api_key, base_url, e, ep, reach1, reach2, tcp) ==
    LET diag == GeminiDiagnostics(e, reach1, reach2, tcp)
        a == Configured("GeminiAdapter", api_key)
    IN  Built([a EXCEPT !.client =
                   [class |-> "GenerativeModel", base_url |-> <<>>,
                    api_key |-> api_key, model |-> a.model_name]],
              diag.env,
              [set |-> TRUE, value |-> Strip(base_url)],
              diag.trace)

GeminiAdapter(api_key, base_url, e, ep, reach1, reach2, tcp) ==
    LET diag == GeminiDiagnostics(e, reach1, reach2, tcp)
        a == Configured("GeminiAdapter", api_key)
    IN  Built([a EXCEPT !.client =
                   [class |-> "GenerativeModel", base_url |-> <<>>,
                    api_key |-> api_key, model |-> a.model_name]],
              diag.env,
              IF Strip(base_url) # <<>>
              THEN [set |-> TRUE, value |-> Strip(base_url)] ELSE ep,
              diag.trace)

(***************************************************************************)
(* invoke.  response is what the transport client does with the request:   *)
(* "text" (a reply with text), "empty_text" (a reply whose text is ''),    *)
(* "none" (a falsy reply), "no_choices" (a reply with an empty choice      *)
(* list), "raise_network" (an exception whose text holds one of Gemini's   *)
(* network keywords, such as a timeout or a refused connection),           *)
(* "raise_ssl" (an exception whose text names SSL in capitals) and         *)
(* "raise_other" (any other exception).  "raise_api_key" is the exception  *)
(* the vendor raises for a rejected key; only test_gemini_connection tells *)
(* it from the others, so only that operation is given it.                 *)
(***************************************************************************)
Responses ==
    {"text", "empty_text", "none", "no_choices", "raise_network", "raise_ssl", "raise_other"}

Raises(response) ==
    response \in {"raise_network", "raise_ssl", "raise_other", "raise_api_key"}

\* str(e) of the exception raised
ErrorText(response) ==
    CASE response = "raise_network" -> <<"T", "i", "m", "e", "o", "u", "t">>
      [] response = "raise_ssl" -> <<"S", "S", "L", " ", "E", "O", "F">>
      [] response = "raise_other" -> <<"q", "u", "o", "t", "a">>
      [] response = "raise_api_key" -> <<"A", "P", "I", "_", "K", "E", "Y", "_", "I", "N", "V", "A", "L", "I", "D">>
      [] OTHER -> <<>>

ReplyText == <<"t">>

\* response.content / choices[0].message.content / response.text
Content(response) == IF response = "text" THEN ReplyText ELSE <<>>

Returned(text, e, trace) == [text |-> text, raised |-> "none", env |-> e, trace |-> trace]

Propagated(exc, e, trace) == [text |-> <<>>, raised |-> exc, env |-> e, trace |-> trace]

\* The exception the transport call (or the handling of its reply) raises.
ExceptionOf(response) ==
    CASE response = "raise_network" -> "TransportError: connection timeout"
      [] response = "raise_ssl" -> "TransportError: SSL EOF"
      [] response = "raise_other" -> "TransportError"
      [] response = "raise_api_key" -> "InvalidArgument"
      [] response = "no_choices" -> "IndexError"
      [] OTHER -> "none"

\* DeepSeekAdapter, OpenAIAdapter, AzureOpenAIAdapter, OllamaAdapter:
\*   response = self._client.invoke(prompt); no try.  LangChain raises
\*   when the reply holds no choice.
invoke_unguarded(response, e) ==
    IF Raises(response) \/ response = "no_choices"
    THEN Propagated(ExceptionOf(response), e, <<EvRequest>>)
    ELSE IF response = "none"
    THEN Returned(<<>>, e, <<EvRequest, EvLog>>)
    ELSE Returned(Content(response), e, <<EvRequest>>)

\* MLStudioAdapter: the same inside try / except Exception
invoke_mlstudio(response, e) ==
    IF Raises(response) \/ response = "no_choices"
    THEN Returned(<<>>, e, <<EvRequest, EvLog>>)
    ELSE IF response = "none"
    THEN Returned(<<>>, e, <<EvRequest, EvLog>>)
    ELSE Returned(Content(response), e, <<EvRequest>>)

\* AzureAIAdapter, GrokAdapter: if response and response.choices ... else warn
invoke_checked_choices(response, e) ==
    IF Raises(response)
    THEN Returned(<<>>, e, <<EvRequest, EvLog>>)
    ELSE IF response \in {"none", "no_choices"}
    THEN Returned(<<>>, e, <<EvRequest, EvLog>>)
    ELSE Returned(Content(response), e, <<EvRequest>>)

\* VolcanoEngineAIAdapter, SiliconFlowAdapter: if not response ...;
\*   response.choices[0] raises IndexError on an empty list, which is caught
invoke_first_choice(response, e) ==
    IF Raises(response) \/ response = "no_choices"
    THEN Returned(<<>>, e, <<EvRequest, EvLog>>)
    ELSE IF response = "none"
    THEN Returned(<<>>, e, <<EvRequest, EvLog>>)
    ELSE Returned(Content(response), e, <<EvRequest>>)

\* A keyword list without 'ssl'.
GeminiKeywords_without_ssl ==
    { <<"c", "o", "n", "n", "e", "c", "t", "i", "o", "n">>,
      <<"t", "i", "m", "e", "o", "u", "t">>,
      <<"n", "e", "t", "w", "o", "r", "k">>,
      <<"p", "r", "o", "x", "y">>,
      <<"c", "e", "r", "t", "i", "f", "i", "c", "a", "t", "e">> }

\* The keywords GeminiAdapter.invoke looks for in the exception text.
GeminiKeywords ==
    { <<"c", "o", "n", "n", "e", "c", "t", "i", "o", "n">>,
      <<"t", "i", "m", "e", "o", "u", "t">>,
      <<"n", "e", "t", "w", "o", "r", "k">>,
      <<"p", "r", "o", "x", "y">>,
      <<"s", "s", "l">>,
      <<"c", "e", "r", "t", "i", "f", "i", "c", "a", "t", "e">> }

\* any(keyword in error_msg.lower() for keyword in [...])
IsNetworkError(error_msg) == \E keyword \in GeminiKeywords : Contains(Lower(error_msg), keyword)

\* GeminiAdapter.invoke: a reply without text is logged; an exception is
\* classified by keyword and a network one re-probes (and may resolve).
invoke_gemini(response, e, reach, tcp) ==
    IF Raises(response) /\ IsNetworkError(ErrorText(response))
    THEN LET p == test_google_connectivity(reach)
             head == <<EvRequest, EvLog, EvLog, EvLog, EvLog, EvLog>> \o p.trace
         IN  IF p.ok
             THEN Returned(<<>>, e, head)
             ELSE LET d == detect_and_setup_proxy(e, tcp) IN
                  Returned(<<>>, d.env, head \o <<EvLog>> \o d.trace)
    ELSE IF Raises(response)
    THEN Returned(<<>>, e, <<EvRequest, EvLog>>)
    ELSE IF response = "text"
    THEN Returned(Content(response), e, <<EvRequest>>)
    ELSE Returned(<<>>, e, <<EvRequest, EvLog>>)

UnguardedVariants ==
    {"DeepSeekAdapter", "OpenAIAdapter", "AzureOpenAIAdapter", "OllamaAdapter"}

\* The invoke method of the adapter's class.
InvokeMethod(a, response, e, reach, tcp) ==
    CASE a.variant \in UnguardedVariants -> invoke_unguarded(response, e)
      [] a.variant = "MLStudioAdapter" -> invoke_mlstudio(response, e)
      [] a.variant \in {"AzureAIAdapter", "GrokAdapter"} -> invoke_checked_choices(response, e)
      [] a.variant \in {"VolcanoEngineAIAdapter", "SiliconFlowAdapter"} ->
             invoke_first_choice(response, e)
      [] a.variant = "GeminiAdapter" -> invoke_gemini(response, e, reach, tcp)

\* An invoke that, when the request raises, replaces the client by a new
\* one built from the object's fields.
invoke_reconnects(a, response, e, reach, tcp) ==
    LET r == InvokeMethod(a, response, e, reach, tcp) IN
    [text |-> r.text, raised |-> r.raised, env |-> r.env, trace |-> r.trace,
     client |-> a.client,
     self |-> IF Raises(response)
              THEN [a EXCEPT !.client = [@ EXCEPT !.class = "reconnected"]]
              ELSE a]

\* a.invoke(prompt): the request goes to self._client (self._model for
\* GeminiAdapter), and no invoke method assigns an attribute of self, so
\* the object after the call is the object before it.
invoke(a, response, e, reach, tcp) ==
    LET r == InvokeMethod(a, response, e, reach, tcp) IN
    [text |-> r.text, raised |-> r.raised, env |-> r.env, trace |-> r.trace,
     client |-> a.client, self |-> a]

\* What each client can answer: a GenerativeModel reply has no choice list.
ResponsesOf(a) ==
    IF a.variant = "GeminiAdapter" THEN Responses \ {"no_choices"} ELSE Responses

(***************************************************************************)
(* create_llm_adapter                                                      *)
(***************************************************************************)
ID_deepseek == <<"d", "e", "e", "p", "s", "e", "e", "k">>
ID_openai == <<"o", "p", "e", "n", "a", "i">>
ID_azure_openai == <<"a", "z", "u", "r", "e", " ", "o", "p", "e", "n", "a", "i">>
ID_azure_ai == <<"a", "z", "u", "r", "e", " ", "a", "i">>
ID_ollama == <<"o", "l", "l", "a", "m", "a">>
ID_ml_studio == <<"m", "l", " ", "s", "t", "u", "d", "i", "o">>
ID_gemini == <<"g", "e", "m", "i", "n", "i">>
ID_grok == <<"g", "r", "o", "k">>
\* The three regional ids, one element per character, named by code point.
ID_aliyun_bailian == <<"U+963F", "U+91CC", "U+4E91", "U+767E", "U+70BC">>
ID_volcano_engine == <<"U+706B", "U+5C71", "U+5F15", "U+64CE">>
ID_silicon_flow == <<"U+7845", "U+57FA", "U+6D41", "U+52A8">>

\* The if / elif chain over fmt: the class whose constructor is called.
SelectVariant(fmt) ==
    CASE fmt = ID_deepseek -> "DeepSeekAdapter"
      [] fmt = ID_openai -> "OpenAIAdapter"
      [] fmt = ID_azure_openai -> "AzureOpenAIAdapter"
      [] fmt = ID_azure_ai -> "AzureAIAdapter"
      [] fmt = ID_ollama -> "OllamaAdapter"
      [] fmt = ID_ml_studio -> "MLStudioAdapter"
      [] fmt = ID_gemini -> "GeminiAdapter"
      [] fmt = ID_aliyun_bailian -> "OpenAIAdapter"
      [] fmt = ID_volcano_engine -> "VolcanoEngineAIAdapter"
      [] fmt = ID_silicon_flow -> "SiliconFlowAdapter"
      [] fmt = ID_grok -> "GrokAdapter"
      [] OTHER -> "none"

\* A factory that compares the id without lower-casing it.
Format_no_lower(interface_format) == Strip(interface_format)

\* fmt = interface_format.strip().lower()
Format(interface_format) == Lower(Strip(interface_format))

\* A message that names the normalised id in place of the one supplied.
UnknownFormatMessage_normalised(interface_format) ==
    <<"Unknown interface_format: ">> \o Format(interface_format)

\* f"Unknown interface_format: {interface_format}"
UnknownFormatMessage(interface_format) ==
    <<"Unknown interface_format: ">> \o interface_format

\* The constructor call of the selected class.
Construct(variant, api_key, base_url, e, ep, reach1, reach2, tcp) ==
    CASE variant \in {"DeepSeekAdapter", "OpenAIAdapter", "MLStudioAdapter"} ->
             Built(LangChainAdapter(variant, api_key, base_url), e, ep, <<>>)
      [] variant = "OllamaAdapter" -> Built(OllamaAdapter(api_key, base_url), e, ep, <<>>)
      [] variant \in {"VolcanoEngineAIAdapter", "SiliconFlowAdapter"} ->
             Built(RawUrlOpenAIAdapter(variant, api_key, base_url), e, ep, <<>>)
      [] variant = "GrokAdapter" -> Built(GrokAdapter(api_key, base_url), e, ep, <<>>)
      [] variant = "AzureOpenAIAdapter" -> AzureOpenAIAdapter(api_key, base_url, e, ep)
      [] variant = "AzureAIAdapter" -> AzureAIAdapter(api_key, base_url, e, ep)
      [] variant = "GeminiAdapter" ->
             GeminiAdapter(api_key, base_url, e, ep, reach1, reach2, tcp)

\* The result r of the call, with the class the chain selected.
Selected(variant, r) ==
    [raised |-> r.raised, message |-> r.message, adapter |-> r.adapter,
     env |-> r.env, endpoint |-> r.endpoint, trace |-> r.trace,
     selected |-> variant]

create_llm_adapter(interface_format, api_key, base_url, e, ep, reach1, reach2, tcp) ==
    LET variant == SelectVariant(Format(interface_format)) IN
    IF variant = "none"
    THEN Selected("none", Failed("ValueError", UnknownFormatMessage(interface_format), e, ep))
    ELSE Selected(variant, Construct(variant, api_key, base_url, e, ep, reach1, reach2, tcp))

(***************************************************************************)
(* test_gemini_connection                                                  *)
(***************************************************************************)
\* The lines logged by the except branch after the error itself: one for
\* a key error, four for a network error, none otherwise.
TestKeywords ==
    { <<"c", "o", "n", "n", "e", "c", "t", "i", "o", "n">>,
      <<"t", "i", "m", "e", "o", "u", "t">>,
      <<"n", "e", "t", "w", "o", "r", "k">> }

Hints(error_msg) ==
    IF Contains(Upper(error_msg), <<"A", "P", "I", "_", "K", "E", "Y">>)
    THEN <<EvLog>>
    ELSE IF \E keyword \in TestKeywords : Contains(Lower(error_msg), keyword)
    THEN <<EvLog, EvLog, EvLog, EvLog>>
    ELSE <<>>

\* A test that calls the vendor whatever the connectivity probe found.
test_gemini_connection_ignores_probe(reach, response) ==
    LET p == test_google_connectivity(reach)
        head == <<EvLog>> \o p.trace \o <<EvRequest>>
    IN  IF Raises(response)
        THEN [ok |-> FALSE, raised |-> "none",
              trace |-> head \o <<EvLog>> \o Hints(ErrorText(response))]
        ELSE [ok |-> response # "none" /\ Content(response) # <<>>, raised |-> "none",
              trace |-> head \o <<EvLog>>]

\* The whole body runs inside try / except Exception, so the exception of
\* the vendor call ends in the except branch, which logs and returns False.
test_gemini_connection(reach, response) ==
    LET p == test_google_connectivity(reach)
        head == <<EvLog>> \o p.trace
    IN  IF ~p.ok
        THEN [ok |-> FALSE, raised |-> "none", trace |-> head \o <<EvLog>>]
        ELSE IF Raises(response)
        THEN [ok |-> FALSE, raised |-> "none",
              trace |-> head \o <<EvRequest, EvLog>> \o Hints(ErrorText(response))]
        ELSE [ok |-> response # "none" /\ Content(response) # <<>>, raised |-> "none",
              trace |-> head \o <<EvRequest, EvLog>>]

(***************************************************************************)
(* The operations as actions.  Each sets last to the record of the call.   *)
(***************************************************************************)
\* The outcomes in which the ports before candidate k are closed and
\* candidate k (if k is one) accepts: the loop's five ways to end when no
\* connect raises.
FirstOpenOutcomes ==
    { [i \in 1..Len(proxy_configs) |-> IF i = k THEN "open" ELSE "closed"] :
        k \in 1..(Len(proxy_configs) + 1) }

\* The (http_proxy, https_proxy) pairs given to set_manual_proxy: proxy
\* addresses as in the docstring, and the empty string.  Each is a value
\* os.environ stores.
ManualPairs ==
    { <<"http://10.0.0.1:3128", NoneArg>>,
      <<"http://10.0.0.1:3128", "http://10.0.0.2:3128">>,
      <<"", NoneArg>> }

\* What the network does during one call: Google reachable or not at the
\* first and second probe, and what the candidate ports do.  The outcomes
\* are drawn only for a call that looks at them (a second probe, or a TCP
\* connect, happens only after a first probe failed).
Worlds(T) ==
    {[reach1 |-> TRUE, reach2 |-> TRUE, tcp |-> CHOOSE t \in T : TRUE]}
    \cup [reach1 : {FALSE}, reach2 : BOOLEAN, tcp : T]

Calm == CHOOSE w \in Worlds(FirstOpenOutcomes) : w.reach1

\* Whether constructing the class id selects issues connectivity probes.
Probes(id) == SelectVariant(Format(id)) = "GeminiAdapter"

DetectAndSetupProxy(T) ==
    \E tcp \in T :
      \E r \in {detect_and_setup_proxy(env, tcp)} :
        /\ env' = r.env
        /\ last' = [Call("detect_and_setup_proxy") EXCEPT
                        !.ok = r.ok, !.trace = r.trace, !.tcp = tcp]
        /\ UNCHANGED <<endpoint, adapter, url, norm, workers>>

TestGoogleConnectivity ==
    \E reach \in BOOLEAN :
      \E r \in {test_google_connectivity(reach)} :
        /\ last' = [Call("test_google_connectivity") EXCEPT !.ok = r.ok, !.trace = r.trace]
        /\ UNCHANGED <<env, endpoint, adapter, url, norm, workers>>

SetManualProxy ==
    \E pair \in ManualPairs, reach \in BOOLEAN :
      \E r \in {set_manual_proxy(env, pair[1], pair[2], reach)} :
        /\ env' = r.env
        /\ last' = [Call("set_manual_proxy") EXCEPT
                        !.ok = r.ok, !.trace = r.trace, !.args = pair]
        /\ UNCHANGED <<endpoint, adapter, url, norm, workers>>

ClearProxy ==
    /\ env' = clear_proxy(env)
    /\ last' = [Call("clear_proxy") EXCEPT !.trace = <<EvLog>>]
    /\ UNCHANGED <<endpoint, adapter, url, norm, workers>>

\* adapter = create_llm_adapter(id, ...): on an exception the caller's
\* variable keeps what it held.
CreateLLMAdapter(Ids, Keys, Urls, T) ==
    \E id \in Ids, key \in Keys, b \in Urls :
      \E w \in (IF Probes(id) THEN Worlds(T) ELSE {Calm}) :
      \E r \in {create_llm_adapter(id, key, b, env, endpoint, w.reach1, w.reach2, w.tcp)} :
        /\ env' = r.env
        /\ endpoint' = r.endpoint
        /\ adapter' = IF r.raised = "none" THEN r.adapter ELSE adapter
        /\ last' = [Call("create_llm_adapter") EXCEPT
                        !.id = id, !.base_url = b, !.raised = r.raised,
                        !.message = r.message, !.trace = r.trace,
                        !.selected = r.selected]
        /\ UNCHANGED <<url, norm, workers>>

\* adapter.invoke(prompt)
Invoke(T) ==
    /\ adapter.variant # "none"
    /\ \E response \in ResponsesOf(adapter) :
      \E w \in (IF adapter.variant = "GeminiAdapter" /\ IsNetworkError(ErrorText(response))
                THEN Worlds(T) ELSE {Calm}) :
      \E r \in {invoke(adapter, response, env, w.reach1, w.tcp)} :
        /\ env' = r.env
        /\ adapter' = r.self
        /\ last' = [Call("invoke") EXCEPT
                        !.response = response, !.text = r.text,
                        !.raised = r.raised, !.trace = r.trace,
                        !.client = r.client]
        /\ UNCHANGED <<endpoint, url, norm, workers>>

TestGeminiConnection ==
    \E reach \in BOOLEAN, response \in (Responses \ {"no_choices"}) \cup {"raise_api_key"} :
      \E r \in {test_gemini_connection(reach, response)} :
        /\ last' = [Call("test_gemini_connection") EXCEPT
                        !.ok = r.ok, !.trace = r.trace, !.raised = r.raised,
                        !.response = IF reach THEN response ELSE "none"]
        /\ UNCHANGED <<env, endpoint, adapter, url, norm, workers>>

(***************************************************************************)
(* The process: no proxy variable at start, then any sequence of calls.    *)
(***************************************************************************)
AZURE_OPENAI_URL ==
    <<HTTPS, "r", OPENAI_DEPLOYMENTS, "d", CHAT_COMPLETIONS, API_VERSION, "1">>

AZURE_AI_URL == <<HTTPS, "r", AZURE_AI_HOST, MODELS, CHAT_COMPLETIONS>>

RecognizedIds ==
    { ID_deepseek, ID_openai, ID_azure_openai, ID_azure_ai, ID_ollama,
      ID_ml_studio, ID_gemini, ID_grok, ID_aliyun_bailian, ID_volcano_engine,
      ID_silicon_flow }

ID_unknown == <<"n", "o", "t", "-", "a", "-", "r", "e", "a", "l", "-", "b", "a", "c", "k", "e", "n", "d">>

\* One id for each class, and one that is not recognised.
MainIds == (RecognizedIds \ {ID_aliyun_bailian}) \cup {ID_unknown}

MainKeys == {<<"k">>}

\* A blank URL and one URL of each Azure shape (to every other class the
\* latter two are plain URLs with no version segment).
MainUrls == {<<" ">>, AZURE_OPENAI_URL, AZURE_AI_URL}

Init ==
    /\ workers = NoWorkers
    /\ env = NoEnv
    /\ endpoint = NoEndpoint
    /\ adapter = NoAdapter
    /\ last = NoCall
    /\ url = <<>>
    /\ norm = <<>>

Next ==
    \/ DetectAndSetupProxy(FirstOpenOutcomes)
    \/ TestGoogleConnectivity
    \/ SetManualProxy
    \/ ClearProxy
    \/ CreateLLMAdapter(MainIds, MainKeys, MainUrls, FirstOpenOutcomes)
    \/ Invoke(FirstOpenOutcomes)
    \/ TestGeminiConnection

Spec == Init /\ [][Next]_vars


\* C1: for every adapter class, an invoke whose transport call fails
\* (a timeout, a refused connection, any vendor exception) returns the
\* empty string and lets no exception reach the caller.
C1_InvokeNeverRaises ==
    (last.op = "invoke" /\ Raises(last.response)) =>
        (last.raised = "none" /\ last.text = <<>>)

\* The call just made assigned the proxy variables: a manual override, or a
\* resolver run (on its own, or inside a construction or an invoke) that
\* found a candidate open.
AssignedByCall(call) ==
    \/ call.op = "set_manual_proxy"
    \/ /\ call.op \in {"detect_and_setup_proxy", "create_llm_adapter", "invoke"}
       /\ \E i \in 1..Len(call.trace) : IsTcp(call.trace[i])
       /\ \E i \in 1..Len(call.trace) : call.trace[i] = EvSetEnv

\* C13: over any sequence of operations the proxy configuration is absent
\* until a successful resolver probe or a manual override sets it, and once
\* set it is removed only by clear_proxy: no other operation deletes or
\* empties a proxy variable.
C13_OnlyClearRemoves ==
    [][ \A v \in ProxyVars :
          /\ (~Truthy(env[v]) /\ Truthy(env'[v])) => AssignedByCall(last')
          /\ (Truthy(env[v]) /\ ~Truthy(env'[v])) => last'.op = "clear_proxy" ]_vars

(***************************************************************************)
(* The proxy operations of a process that may have inherited proxy         *)
(* variables, in any spelling, from its parent; a TCP connect may also     *)
(* raise.                                                                  *)
(***************************************************************************)
InheritedEnvs == [ProxyVars -> {Unset, "", "http://corp.example:8080"}]

TcpOutcomes == [1..Len(proxy_configs) -> {"open", "closed", "error"}]

InitProxy ==
    /\ workers = NoWorkers
    /\ env \in InheritedEnvs
    /\ endpoint = NoEndpoint
    /\ adapter = NoAdapter
    /\ last = NoCall
    /\ url = <<>>
    /\ norm = <<>>

NextProxy ==
    \/ DetectAndSetupProxy(TcpOutcomes)
    \/ TestGoogleConnectivity
    \/ SetManualProxy
    \/ ClearProxy

SpecProxy == InitProxy /\ [][NextProxy]_vars

\* C10: whenever HTTP_PROXY or HTTPS_PROXY, in upper-case or lower-case
\* spelling, is already non-empty, detect_and_setup_proxy returns True,
\* connects to no candidate and changes no proxy variable.
C10_AnySpellingCountsAsConfigured ==
    (last.op = "detect_and_setup_proxy" /\ \E v \in ProxyVars : Truthy(last.before[v])) =>
        /\ last.ok
        /\ \A i \in 1..Len(last.trace) : ~IsTcp(last.trace[i])
        /\ env = last.before

\* No proxy variable, in either spelling, holds a value.
NothingConfigured(e) == \A v \in ProxyVars : ~Truthy(e[v])

\* The first candidate whose port accepts.
FirstOpen(tcp) ==
    CHOOSE k \in 1..Len(tcp) : tcp[k] = "open" /\ \A j \in 1..(k - 1) : tcp[j] # "open"

\* The TCP connects of a trace, in the order they were made.
TcpProbes(trace) == SelectSeq(trace, IsTcp)

\* All four variables hold candidate k's URL.
ConfiguredAs(e, k) ==
    /\ e["HTTP_PROXY"] = proxy_configs[k].http
    /\ e["http_proxy"] = proxy_configs[k].http
    /\ e["HTTPS_PROXY"] = proxy_configs[k].https
    /\ e["https_proxy"] = proxy_configs[k].https
    /\ proxy_configs[k].https = proxy_configs[k].http

\* C11: with no proxy configured and some candidate port open,
\* detect_and_setup_proxy connects to the candidates in list order
\* (7890, 7891, 8080, 1080) up to the first open one and to none after it,
\* sets all four variables to that candidate's URL and returns True; in
\* particular, called right after clear_proxy with exactly one candidate
\* open, it leaves that candidate's configuration.
C11_FirstOpenCandidateWins ==
    [][ last'.op = "detect_and_setup_proxy" =>
          /\ (NothingConfigured(last'.before) /\ \E i \in 1..Len(last'.tcp) : last'.tcp[i] = "open") =>
                \E k \in {FirstOpen(last'.tcp)} :
                  /\ last'.ok
                  /\ TcpProbes(last'.trace) = [i \in 1..k |-> EvTcp(i)]
                  /\ ConfiguredAs(env', k)
          /\ last.op = "clear_proxy" =>
                \A k \in 1..Len(last'.tcp) :
                  (\A i \in 1..Len(last'.tcp) : (last'.tcp[i] = "open") <=> (i = k)) =>
                      (last'.ok /\ ConfiguredAs(env', k)) ]_vars

\* With nothing configured, the first two candidates refused or failed and
\* the third and fourth were open: the third was taken, the fourth never tried.
C11_Witness ==
    /\ last.op = "detect_and_setup_proxy"
    /\ last.before = NoEnv
    /\ last.tcp = <<"closed", "error", "open", "open">>
    /\ last.ok
    /\ ConfiguredAs(env, 3)
    /\ Len(TcpProbes(last.trace)) = 3

\* C12: with no proxy configured and no candidate port open (each connect
\* is refused or raises), detect_and_setup_proxy connects to every candidate
\* once, returns False, raises nothing and leaves every proxy variable as
\* it was.
C12_NoCandidateLeavesEnv ==
    (/\ last.op = "detect_and_setup_proxy"
     /\ NothingConfigured(last.before)
     /\ \A i \in 1..Len(last.tcp) : last.tcp[i] # "open") =>
        /\ ~last.ok
        /\ last.raised = "none"
        /\ TcpProbes(last.trace) = [i \in 1..Len(proxy_configs) |-> EvTcp(i)]
        /\ env = last.before

\* Two connects raised and two were refused, while HTTP_PROXY was set but empty.
C12_Witness ==
    /\ last.op = "detect_and_setup_proxy"
    /\ last.tcp = <<"error", "closed", "error", "closed">>
    /\ last.before["HTTP_PROXY"] = ""
    /\ last.before["https_proxy"] = Unset
    /\ ~last.ok
    /\ env = last.before

\* The pair given to set_manual_proxy, with https_proxy defaulted.
ManualHttp(call) == call.args[1]

ManualHttps(call) == IF call.args[2] = NoneArg THEN call.args[1] ELSE call.args[2]

\* C14: set_manual_proxy(http, https) connects to no candidate and does
\* not run the resolver; it sets HTTP_PROXY and http_proxy to http and
\* HTTPS_PROXY and https_proxy to https (http when https is omitted),
\* whatever was configured before; it issues one connectivity probe, after
\* the variables are set, and returns True exactly when that probe
\* succeeds; when the probe fails the new configuration stays in place.
C14_ManualOverride ==
    last.op = "set_manual_proxy" =>
        /\ \A i \in 1..Len(last.trace) : ~IsTcp(last.trace[i]) /\ last.trace[i] # EvResolve
        /\ env["HTTP_PROXY"] = ManualHttp(last) /\ env["http_proxy"] = ManualHttp(last)
        /\ env["HTTPS_PROXY"] = ManualHttps(last) /\ env["https_proxy"] = ManualHttps(last)
        /\ Count(last.trace, EvProbe) = 1
        /\ \E i, j \in 1..Len(last.trace) :
               i < j /\ last.trace[i] = EvSetEnv /\ last.trace[j] = EvProbe
        /\ last.ok <=> Count(last.trace, EvDebug) = 0
        /\ last.raised = "none"

\* A one-argument override replaced an inherited configuration, and the
\* probe that followed failed.
C14_Witness ==
    /\ last.op = "set_manual_proxy"
    /\ last.args[2] = NoneArg
    /\ Truthy(last.args[1])
    /\ Truthy(last.before["HTTPS_PROXY"])
    /\ last.before["HTTPS_PROXY"] # last.args[1]
    /\ ~last.ok
    /\ env["https_proxy"] = last.args[1]

(***************************************************************************)
(* The factory under every spelling of the ids: each id in lower case,     *)
(* upper case and capitalised, with up to MaxPad blanks before it and      *)
(* none or MaxPad blanks after it.                                         *)
(***************************************************************************)
Capitalized(s) == IF s = <<>> THEN s ELSE <<UpperChar(s[1])>> \o Tail(s)

Blanks(n) == [i \in 1..n |-> " "]

UnknownIds == {ID_unknown, <<>>, <<"o", "p", "e", "n", " ", "a", "i">>}

FormatIds ==
    { Blanks(l) \o c \o Blanks(r) :
        l \in 0..MaxPad, r \in {0, MaxPad},
        c \in UNION { {n, Upper(n), Capitalized(n)} : n \in RecognizedIds \cup UnknownIds } }

\* No candidate port accepts, or the first one does.
FactoryOutcomes ==
    { [i \in 1..Len(proxy_configs) |-> IF i = k THEN "open" ELSE "closed"] : k \in 0..1 }

NextFactory == CreateLLMAdapter(FormatIds, MainKeys, {AZURE_OPENAI_URL}, FactoryOutcomes)

SpecFactory == Init /\ [][NextFactory]_vars

\* The id as the claims read it: trimmed, then lower-cased.
Canonical(id) == Lower(Strip(id))

\* C5: create_llm_adapter with an id that, trimmed and lower-cased, is none
\* of the recognised ids raises ValueError with a message containing the id
\* as supplied; no constructor runs, no probe is issued, and the adapter
\* held, the proxy variables and the endpoint override stay as they were.
C5_UnknownIdRaises ==
    [][ (last'.op = "create_llm_adapter" /\ Canonical(last'.id) \notin RecognizedIds) =>
            /\ last'.raised = "ValueError"
            /\ Contains(last'.message, last'.id)
            /\ last'.selected = "none"
            /\ last'.trace = <<>>
            /\ UNCHANGED <<env, endpoint, adapter>> ]_vars

\* An unrecognised id, given in a spelling that trimming and lower-casing
\* change, was refused while an adapter and a proxy were in place.
C5_Witness ==
    /\ last.op = "create_llm_adapter"
    /\ last.raised = "ValueError"
    /\ last.selected = "none"
    /\ Strip(last.id) # last.id
    /\ Lower(last.id) # last.id
    /\ adapter.variant # "none"
    /\ env # NoEnv

\* C6: the class the factory selects depends only on the trimmed,
\* lower-cased id: an id selects what its canonical spelling selects, each
\* recognised id selects a class, and the regional alias (U+963F U+91CC
\* U+4E91 U+767E U+70BC) selects the class 'openai' selects.
C6_SelectionByCanonicalId ==
    last.op = "create_llm_adapter" =>
        /\ last.selected = SelectVariant(Format(Canonical(last.id)))
        /\ Canonical(last.id) \in RecognizedIds => last.selected # "none"
        /\ Canonical(last.id) = ID_aliyun_bailian =>
               last.selected = SelectVariant(Format(ID_openai))
        /\ last.raised = "none" => adapter.variant = last.selected

\* A padded, upper-case 'OPENAI' gave an OpenAIAdapter.
C6_Witness ==
    /\ last.op = "create_llm_adapter"
    /\ Strip(last.id) # last.id
    /\ Strip(last.id) = Upper(ID_openai)
    /\ last.raised = "none"
    /\ adapter.variant = "OpenAIAdapter"

(***************************************************************************)
(* The Azure constructors on their own: every URL made of an optional      *)
(* scheme and up to MaxAzure...Body further elements, each a literal of    *)
(* the pattern or the plain character x.                                   *)
(***************************************************************************)
Schemes == {<<>>, <<HTTPS>>, <<"http://">>}

InitAzureOpenAI ==
    /\ workers = NoWorkers
    /\ url \in { h \o b :
                    h \in Schemes,
                    b \in SeqsUpTo({"x", OPENAI_DEPLOYMENTS, CHAT_COMPLETIONS, API_VERSION},
                                   MaxAzureOpenAIBody) }
    /\ norm = <<>>
    /\ env = NoEnv
    /\ endpoint = NoEndpoint
    /\ adapter = NoAdapter
    /\ last = NoCall

InitAzureAI ==
    /\ workers = NoWorkers
    /\ url \in { h \o b :
                    h \in Schemes,
                    b \in SeqsUpTo({"x", AZURE_AI_HOST, MODELS, CHAT_COMPLETIONS, API_VERSION},
                                   MaxAzureAIBody) }
    /\ norm = <<>>
    /\ env = NoEnv
    /\ endpoint = NoEndpoint
    /\ adapter = NoAdapter
    /\ last = NoCall

\* adapter = AzureOpenAIAdapter(api_key, url, ...)
ConstructAzureOpenAI ==
    /\ last.op = "none"
    /\ \E r \in {AzureOpenAIAdapter(<<"k">>, url, env, endpoint)} :
        /\ adapter' = IF r.raised = "none" THEN r.adapter ELSE adapter
        /\ last' = [Call("AzureOpenAIAdapter") EXCEPT
                        !.base_url = url, !.raised = r.raised, !.message = r.message]
    /\ UNCHANGED <<env, endpoint, url, norm, workers>>

\* adapter = AzureAIAdapter(api_key, url, ...)
ConstructAzureAI ==
    /\ last.op = "none"
    /\ \E r \in {AzureAIAdapter(<<"k">>, url, env, endpoint)} :
        /\ adapter' = IF r.raised = "none" THEN r.adapter ELSE adapter
        /\ last' = [Call("AzureAIAdapter") EXCEPT
                        !.base_url = url, !.raised = r.raised, !.message = r.message]
    /\ UNCHANGED <<env, endpoint, url, norm, workers>>

SpecAzureOpenAI == InitAzureOpenAI /\ [][ConstructAzureOpenAI]_vars

SpecAzureAI == InitAzureAI /\ [][ConstructAzureAI]_vars

\* u is https://{endpoint}/openai/deployments/{deployment}/chat/completions?api-version={version}
\* for some non-empty endpoint, deployment and version.
HasAzureOpenAIForm(u) ==
    \E i \in 2..Len(u), j \in 4..Len(u) :
        /\ j >= i + 2
        /\ j + 3 <= Len(u)
        /\ u = <<HTTPS>> \o SubSeq(u, 2, i) \o <<OPENAI_DEPLOYMENTS>>
                 \o SubSeq(u, i + 2, j) \o <<CHAT_COMPLETIONS, API_VERSION>>
                 \o SubSeq(u, j + 3, Len(u))

\* C7: AzureOpenAIAdapter construction succeeds exactly when base_url has
\* the form https://{endpoint}/openai/deployments/{deployment}/chat/completions?api-version={version};
\* then azure_endpoint, azure_deployment and api_version are the parts of
\* the URL (azure_endpoint = 'https://{endpoint}'), and model_name is the
\* deployment, not the caller's model_name; otherwise ValueError is raised
\* and no adapter exists.
C7_AzureOpenAIUrlParsed ==
    last.op = "AzureOpenAIAdapter" =>
        /\ (last.raised = "none") <=> HasAzureOpenAIForm(url)
        /\ last.raised = "none" =>
               /\ adapter.variant = "AzureOpenAIAdapter"
               /\ StartsWith(adapter.azure_endpoint, <<HTTPS>>)
               /\ Len(adapter.azure_endpoint) >= 2
               /\ adapter.azure_deployment # <<>>
               /\ adapter.api_version # <<>>
               /\ url = adapter.azure_endpoint \o <<OPENAI_DEPLOYMENTS>>
                          \o adapter.azure_deployment
                          \o <<CHAT_COMPLETIONS, API_VERSION>> \o adapter.api_version
               /\ adapter.model_name = adapter.azure_deployment
               /\ adapter.client.model = adapter.azure_deployment
        /\ last.raised # "none" => (last.raised = "ValueError" /\ adapter = NoAdapter)

\* A URL of the form, with a two-character api-version, was parsed.
C7_Witness ==
    /\ last.op = "AzureOpenAIAdapter"
    /\ last.raised = "none"
    /\ adapter.azure_endpoint = <<HTTPS, "x">>
    /\ adapter.azure_deployment = <<"x">>
    /\ adapter.api_version = <<"x", "x">>
    /\ adapter.model_name # Params.model_name

\* u is https://{name}.services.ai.azure.com[/models][/chat/completions][?api-version={v}]
\* with the optional parts m and c, and the query present when v is not empty.
IsAzureAIForm(u, name, m, c, v) ==
    /\ name # <<>>
    /\ Len(u) = 2 + Len(name) + (IF m THEN 1 ELSE 0) + (IF c THEN 1 ELSE 0)
                  + (IF v # <<>> THEN 1 + Len(v) ELSE 0)
    /\ u = <<HTTPS>> \o name \o <<AZURE_AI_HOST>>
             \o (IF m THEN <<MODELS>> ELSE <<>>)
             \o (IF c THEN <<CHAT_COMPLETIONS>> ELSE <<>>)
             \o (IF v # <<>> THEN <<API_VERSION>> \o v ELSE <<>>)

Prefixes(u) == { SubSeq(u, 2, i) : i \in 1..Len(u) }

Suffixes(u) == { SubSeq(u, k, Len(u)) : k \in 1..(Len(u) + 1) }

HostFree(name) == \A i \in 1..Len(name) : name[i] # AZURE_AI_HOST

\* u begins https://{name}.services.ai.azure.com
HasAzureAIHost(u, name) ==
    /\ Len(u) >= Len(name) + 2
    /\ u[1] = HTTPS
    /\ SubSeq(u, 2, Len(name) + 1) = name
    /\ u[Len(name) + 2] = AZURE_AI_HOST

C9_AzureAIMismatchFails ==
    (/\ last.op = "AzureAIAdapter"
     /\ ~\E name \in Prefixes(url), v \in Suffixes(url), m \in BOOLEAN, c \in BOOLEAN :
            \/ IsAzureAIForm(url, name, m, c, v)
            \/ IsAzureAIForm(url \o <<"x">>, name, m, c, <<"x">>)) =>
        (last.raised = "ValueError" /\ adapter = NoAdapter)

(***************************************************************************)
(* The URL normaliser on its own: every text up to MaxUrlLen characters    *)
(* over an alphabet holding each character check_base_url looks at.        *)
(***************************************************************************)
UrlChars == {"h", "/", "v", "1", "2", "#", " "}

InitUrl ==
    /\ workers = NoWorkers
    /\ url \in SeqsUpTo(UrlChars, MaxUrlLen)
    /\ norm = <<>>
    /\ env = NoEnv
    /\ endpoint = NoEndpoint
    /\ adapter = NoAdapter
    /\ last = NoCall

\* r = check_base_url(url)
Normalize ==
    /\ norm = <<>>
    /\ norm' = <<check_base_url(url)>>
    /\ UNCHANGED <<env, endpoint, adapter, last, url, workers>>

\* check_base_url(r), the normaliser applied to its own result
NormalizeAgain ==
    /\ Len(norm) = 1
    /\ norm' = Append(norm, check_base_url(norm[1]))
    /\ UNCHANGED <<env, endpoint, adapter, last, url, workers>>

NextUrl == Normalize \/ NormalizeAgain

SpecUrl == InitUrl /\ [][NextUrl]_vars

(***************************************************************************)
(* Claims about check_base_url (checked under SpecUrl).                    *)
(***************************************************************************)
Trimmed == Strip(url)

HashEnded == EndsWith(Trimmed, <<"#">>)

\* The text ends in a path segment /v<digits>.
EndsInVersionSegment(s) ==
    \E k \in 1..(Len(s) - 2) :
        /\ SubSeq(s, k, k + 1) = <<"/", "v">>
        /\ \A j \in (k + 2)..Len(s) :
               s[j] \in {"0", "1", "2", "3", "4", "5", "6", "7", "8", "9"}

\* r is s without its trailing slashes, followed by /v1.
IsSlashStrippedPlusV1(r, s) ==
    \E k \in 0..Len(s) :
        /\ r = SubSeq(s, 1, k) \o V1
        /\ k = 0 \/ s[k] # "/"
        /\ \A j \in (k + 1)..Len(s) : s[j] = "/"

\* C2 (as stated): check_base_url is idempotent on every input,
\* check_base_url(check_base_url(u)) = check_base_url(u), inputs ending in
\* '#' included.
C2_IdempotentEverywhere == Len(norm) = 2 => norm[2] = norm[1]

\* C2 (amended): check_base_url is idempotent on every input whose trimmed
\* form does not end in '#' (trailing slashes and surrounding blanks
\* included): applying it to its own result returns that result.
C2_IdempotentUnlessHashEnded ==
    (Len(norm) = 2 /\ ~HashEnded) => norm[2] = norm[1]

\* An input with blanks around it and no '#' at its end, which the
\* normaliser rewrote, has been normalised twice.
C2_Witness ==
    /\ Len(norm) = 2
    /\ ~HashEnded
    /\ url # Trimmed
    /\ norm[1] # Trimmed

\* C3: when the trimmed input ends in '#', check_base_url returns the
\* trimmed input with exactly that one '#' removed and nothing else changed,
\* also when what remains ends in '#' or '/'.
C3_ExactlyOneHashRemoved ==
    (Len(norm) >= 1 /\ HashEnded) =>
        norm[1] = SubSeq(Trimmed, 1, Len(Trimmed) - 1)

\* C4: an input that is empty after trimming gives the empty text; a
\* non-empty trimmed input that does not end in '#' is returned unchanged
\* when it ends in a segment /v<digits> or contains '/v1', and otherwise is
\* returned without its trailing slashes and with '/v1' appended.
C4_VersionSuffixRule ==
    Len(norm) >= 1 =>
        /\ Trimmed = <<>> => norm[1] = <<>>
        /\ (Trimmed # <<>> /\ ~HashEnded) =>
               IF EndsInVersionSegment(Trimmed) \/ Contains(Trimmed, V1)
               THEN norm[1] = Trimmed
               ELSE IsSlashStrippedPlusV1(norm[1], Trimmed)

\* A blank-padded URL with a trailing slash and no version got '/v1'.
C4_Witness ==
    /\ Len(norm) >= 1
    /\ url # Trimmed
    /\ EndsWith(Trimmed, <<"/">>)
    /\ ~Contains(Trimmed, <<"/", "v">>)
    /\ EndsWith(norm[1], V1)

(***************************************************************************)
(* The Gemini adapter on its own: a process that may have inherited proxy  *)
(* variables constructs GeminiAdapter objects and calls invoke, while      *)
(* Google is reachable or not and each candidate port accepts, refuses or  *)
(* makes the connect raise.                                                *)
(***************************************************************************)
GeminiEnvs ==
    { [v \in ProxyVars |-> IF v \in {"HTTP_PROXY", "HTTPS_PROXY"} THEN up ELSE low] :
        up \in {Unset, "", "http://corp.example:8080"},
        low \in {Unset, "http://corp.example:8080"} }

GeminiUrls == {<<>>, <<" ", "h", " ">>}

InitGemini ==
    /\ workers = NoWorkers
    /\ env \in GeminiEnvs
    /\ endpoint = NoEndpoint
    /\ adapter = NoAdapter
    /\ last = NoCall
    /\ url = <<>>
    /\ norm = <<>>

NextGemini ==
    \/ CreateLLMAdapter({ID_gemini}, MainKeys, GeminiUrls, TcpOutcomes)
    \/ Invoke(TcpOutcomes)
    \/ ClearProxy

SpecGemini == InitGemini /\ [][NextGemini]_vars

\* The call was a construction of GeminiAdapter.
GeminiConstruction == last.op = "create_llm_adapter" /\ last.selected = "GeminiAdapter"

\* Positions of event e in trace t.
Positions(t, e) == { i \in 1..Len(t) : t[i] = e }

\* The first event of the trace is a connectivity probe that failed
\* (test_google_connectivity logs the failure at debug level).
FirstProbeFailed(t) == Len(t) >= 2 /\ t[1] = EvProbe /\ t[2] = EvDebug

\* C15: GeminiAdapter construction never fails because of the connectivity
\* diagnostics: whether Google is reachable or not, a proxy is found or
\* not, or a connect raises, the constructor configures the API key,
\* creates the model and returns an adapter.
C15_GeminiConstructionNeverFails ==
    GeminiConstruction =>
        /\ last.raised = "none"
        /\ adapter.variant = "GeminiAdapter"
        /\ adapter.client.class = "GenerativeModel"
        /\ adapter.client.api_key = adapter.api_key
        /\ adapter.api_key \in MainKeys

\* Google was out of reach, every candidate was tried, one connect raised
\* and no proxy was found: the adapter was built all the same.
C15_Witness ==
    /\ GeminiConstruction
    /\ FirstProbeFailed(last.trace)
    /\ Len(TcpProbes(last.trace)) = Len(proxy_configs)
    /\ \E i \in 2..Len(last.trace) : IsTcp(last.trace[i - 1]) /\ last.trace[i] = EvDebug
    /\ Count(last.trace, EvSetEnv) = 0
    /\ adapter.variant = "GeminiAdapter"

\* The resolver run inside the call ended with a proxy in place: one was
\* configured when the call started, or a candidate was taken.
ResolverSucceeded(call) ==
    \/ Truthy(call.before["HTTP_PROXY"]) \/ Truthy(call.before["HTTPS_PROXY"])
    \/ Count(call.trace, EvSetEnv) > 0

\* The part of C16 both readings share: the construction starts with one
\* probe; the resolver runs, once and after that probe, exactly when the
\* probe failed; when the probe succeeded there is no other probe and the
\* proxy variables are unchanged.
ProbeThenResolver ==
    /\ last.trace # <<>> /\ last.trace[1] = EvProbe
    /\ Count(last.trace, EvResolve) = (IF FirstProbeFailed(last.trace) THEN 1 ELSE 0)
    /\ ~FirstProbeFailed(last.trace) =>
           /\ Count(last.trace, EvProbe) = 1
           /\ TcpProbes(last.trace) = <<>>
           /\ env = last.before

\* C16 (as stated): during GeminiAdapter construction there is one
\* connectivity probe; if and only if it reports unreachable the resolver is
\* run, followed by a second connectivity probe; when the first probe
\* succeeds the resolver is never run and the proxy configuration is unchanged.
C16_ResolverThenSecondProbe ==
    GeminiConstruction =>
        /\ ProbeThenResolver
        /\ FirstProbeFailed(last.trace) =>
               /\ Count(last.trace, EvProbe) = 2
               /\ \A r \in Positions(last.trace, EvResolve) :
                      \E q \in Positions(last.trace, EvProbe) : q > r

\* C16 (amended): as stated, except that the second probe is made only
\* when the resolver returned True (a proxy was already configured, or a
\* candidate was taken); it then follows the resolver and a one-second wait.
\* When the resolver returns False there is no second probe.
C16_SecondProbeOnlyAfterProxy ==
    GeminiConstruction =>
        /\ ProbeThenResolver
        /\ FirstProbeFailed(last.trace) =>
               IF ResolverSucceeded(last)
               THEN /\ Count(last.trace, EvProbe) = 2
                    /\ Count(last.trace, EvSleep) = 1
                    /\ \A r \in Positions(last.trace, EvResolve), w \in Positions(last.trace, EvSleep) :
                           /\ r < w
                           /\ \E q \in Positions(last.trace, EvProbe) : q > w
               ELSE /\ Count(last.trace, EvProbe) = 1
                    /\ Count(last.trace, EvSleep) = 0

\* The first probe failed, the third candidate was taken after one connect
\* raised, and a second probe followed.
C16_Witness ==
    /\ GeminiConstruction
    /\ FirstProbeFailed(last.trace)
    /\ last.before = NoEnv
    /\ ConfiguredAs(env, 3)
    /\ \E i \in 2..Len(last.trace) : IsTcp(last.trace[i - 1]) /\ last.trace[i] = EvDebug
    /\ Count(last.trace, EvProbe) = 2

\* The network keywords as the claim lists them.
NetworkWords ==
    { <<"c", "o", "n", "n", "e", "c", "t", "i", "o", "n">>, <<"t", "i", "m", "e", "o", "u", "t">>,
      <<"n", "e", "t", "w", "o", "r", "k">>, <<"p", "r", "o", "x", "y">>, <<"s", "s", "l">>,
      <<"c", "e", "r", "t", "i", "f", "i", "c", "a", "t", "e">> }

\* C17: when the vendor call of GeminiAdapter.invoke raises an exception
\* whose lower-cased text holds 'connection', 'timeout', 'network', 'proxy',
\* 'ssl' or 'certificate', a connectivity probe is issued after the request
\* and invoke returns ''; when the text holds none of them invoke returns ''
\* with no probe, no resolver run and the proxy variables unchanged.
C17_GeminiNetworkErrorReprobes ==
    (last.op = "invoke" /\ adapter.variant = "GeminiAdapter" /\ Raises(last.response)) =>
        /\ last.raised = "none"
        /\ last.text = <<>>
        /\ IF \E w \in NetworkWords : Contains(Lower(ErrorText(last.response)), w)
           THEN /\ Count(last.trace, EvProbe) = 1
                /\ \A q \in Positions(last.trace, EvProbe), r \in Positions(last.trace, EvRequest) : r < q
           ELSE /\ Count(last.trace, EvProbe) = 0
                /\ Count(last.trace, EvResolve) = 0
                /\ TcpProbes(last.trace) = <<>>
                /\ env = last.before

\* An exception naming SSL in capitals led to a probe, which failed, and to
\* a resolver run that took a candidate.
C17_Witness ==
    /\ last.op = "invoke"
    /\ adapter.variant = "GeminiAdapter"
    /\ last.response = "raise_ssl"
    /\ Count(last.trace, EvProbe) = 1
    /\ Count(last.trace, EvResolve) = 1
    /\ env # last.before
    /\ last.text = <<>>

(***************************************************************************)
(* Claims about invoke and the transport clients (checked under Spec).     *)
(***************************************************************************)
\* C18: every invoke, of every adapter class, issues exactly one request to
\* its transport client and never retries; a call whose request times out
\* or fails returns the empty string, once, after that single attempt.
C18_OneRequestThenEmpty ==
    last.op = "invoke" =>
        /\ Count(last.trace, EvRequest) = 1
        /\ Raises(last.response) => (last.raised = "none" /\ last.text = <<>>)

\* The classes built on an OpenAI-compatible client.
OpenAICompatible ==
    {"DeepSeekAdapter", "OpenAIAdapter", "OllamaAdapter", "MLStudioAdapter",
     "VolcanoEngineAIAdapter", "SiliconFlowAdapter", "GrokAdapter"}

\* C19: for every OpenAI-compatible class (DeepSeek, OpenAI, Ollama,
\* ML Studio, VolcanoEngine, SiliconFlow, Grok) the URL the transport client
\* is constructed with is check_base_url of the base_url supplied, which is
\* the adapter's base_url field.
C19_ClientGetsNormalisedUrl ==
    (last.op = "create_llm_adapter" /\ last.selected \in OpenAICompatible) =>
        /\ adapter.base_url = check_base_url(last.base_url)
        /\ adapter.client.base_url = adapter.base_url

\* C20: for every adapter class, when the transport returns a well-formed
\* response without usable output (no choices, or an empty text), invoke
\* returns the empty string and logs at least one diagnostic line.
C20_UnusableReplyLogged ==
    (last.op = "invoke" /\ last.response \in {"no_choices", "empty_text"}) =>
        /\ last.raised = "none"
        /\ last.text = <<>>
        /\ Count(last.trace, EvLog) >= 1

(***************************************************************************)
(* Claims about test_gemini_connection and about what a call leaves alone  *)
(* (checked under Spec).                                                   *)
(***************************************************************************)
\* The connectivity probe of the call failed.
ProbeFailed(t) == \E i \in 1..(Len(t) - 1) : t[i] = EvProbe /\ t[i + 1] = EvDebug

\* C21: test_gemini_connection never raises; it first runs the connectivity
\* probe and, if the probe fails, returns False without any vendor call;
\* otherwise it makes one vendor call and returns True exactly when that
\* call yields non-empty text, False when the text is empty or the call
\* raises.
C21_TestConnectionContract ==
    last.op = "test_gemini_connection" =>
        /\ last.raised = "none"
        /\ Count(last.trace, EvProbe) = 1
        /\ \A q \in Positions(last.trace, EvProbe), r \in Positions(last.trace, EvRequest) : q < r
        /\ IF ProbeFailed(last.trace)
           THEN /\ ~last.ok
                /\ Count(last.trace, EvRequest) = 0
           ELSE /\ Count(last.trace, EvRequest) = 1
                /\ last.ok <=> (last.response = "text")
                /\ (Raises(last.response) \/ last.response = "empty_text") => ~last.ok

\* The probe succeeded and the vendor rejected the key: False, no exception.
C21_Witness ==
    /\ last.op = "test_gemini_connection"
    /\ ~ProbeFailed(last.trace)
    /\ last.response = "raise_api_key"
    /\ Count(last.trace, EvRequest) = 1
    /\ ~last.ok
    /\ last.raised = "none"

\* C22: after construction, no invoke call (successful or failing) changes
\* the adapter's configuration fields or replaces its transport client: the
\* request of every invoke goes to the client the object already held, and
\* the object after the call is the object before it.
C22_InvokeLeavesAdapter ==
    [][last'.op = "invoke" =>
           /\ adapter' = adapter
           /\ last'.client = adapter.client]_vars

\* A GrokAdapter whose request just failed is still, field for field and
\* client included, the object its constructor built.
C22_Witness ==
    /\ last.op = "invoke"
    /\ Raises(last.response)
    /\ adapter.variant = "GrokAdapter"
    /\ last.client = adapter.client
    /\ adapter.client.class # "none"
    /\ \E b \in MainUrls : adapter = GrokAdapter(<<"k">>, b)

\* The call constructed or invoked an adapter of a class other than
\* GeminiAdapter.
OtherAdapterCall ==
    \/ last.op = "create_llm_adapter" /\ last.selected \notin {"GeminiAdapter", "none"}
    \/ last.op = "invoke" /\ adapter.variant # "GeminiAdapter"

\* C25: constructing or invoking an adapter other than GeminiAdapter issues
\* no connectivity probe, runs no proxy resolution, and leaves the proxy
\* variables and the Google endpoint override unchanged; the override is
\* written only by a GeminiAdapter construction whose base_url is non-empty
\* after trimming (it then holds the trimmed base_url), and is left as it
\* was when that base_url is empty.
C25_OnlyGeminiTouchesGlobals ==
    /\ OtherAdapterCall =>
           /\ Count(last.trace, EvProbe) = 0
           /\ Count(last.trace, EvResolve) = 0
           /\ TcpProbes(last.trace) = <<>>
           /\ env = last.before
           /\ endpoint = last.endpointBefore
    /\ endpoint # last.endpointBefore =>
           GeminiConstruction /\ Strip(last.base_url) # <<>>
    /\ GeminiConstruction =>
           IF Strip(last.base_url) # <<>>
           THEN endpoint = [set |-> TRUE, value |-> Strip(last.base_url)]
           ELSE endpoint = last.endpointBefore

\* With a proxy configured and the override set by an earlier GeminiAdapter,
\* an OllamaAdapter was constructed: both are as they were.
C25_Witness ==
    /\ last.op = "create_llm_adapter"
    /\ last.selected = "OllamaAdapter"
    /\ adapter.variant = "OllamaAdapter"
    /\ endpoint.set
    /\ endpoint = last.endpointBefore
    /\ Truthy(env["HTTP_PROXY"])
    /\ env = last.before

(***************************************************************************)
(* The proxy configuration of a process that starts with no proxy          *)
(* variable and runs, one after the other, the operations that can touch   *)
(* it: the resolver, the manual override, the clear, and the construction  *)
(* and invoke of GeminiAdapter.  A candidate port accepts, refuses or      *)
(* makes the connect raise.                                                *)
(***************************************************************************)
NextSession ==
    \/ DetectAndSetupProxy(TcpOutcomes)
    \/ SetManualProxy
    \/ ClearProxy
    \/ CreateLLMAdapter({ID_gemini}, MainKeys, GeminiUrls, TcpOutcomes)
    \/ Invoke(TcpOutcomes)

SpecSession == Init /\ [][NextSession]_vars

\* The two spellings of each variable agree: all four absent, or all four
\* present with equal values per protocol.
SpellingsAgree(e) ==
    \/ \A v \in ProxyVars : e[v] = Unset
    \/ /\ \A v \in ProxyVars : e[v] # Unset
       /\ e["HTTP_PROXY"] = e["http_proxy"]
       /\ e["HTTPS_PROXY"] = e["https_proxy"]

\* C23: starting with no proxy variable, after every completed operation of
\* a sequence of detect_and_setup_proxy, set_manual_proxy, clear_proxy,
\* GeminiAdapter construction and GeminiAdapter.invoke, the four variables
\* are all absent, or all present with HTTP_PROXY equal to http_proxy and
\* HTTPS_PROXY equal to https_proxy.
C23_SpellingsNeverDisagree == SpellingsAgree(env)

\* After a two-address manual override, a Gemini invoke met a network
\* error, probed, and ran the resolver: the four variables are present and
\* the spellings agree, with different HTTP and HTTPS addresses.
C23_Witness ==
    /\ last.op = "invoke"
    /\ Count(last.trace, EvResolve) = 1
    /\ env["HTTP_PROXY"] # env["HTTPS_PROXY"]
    /\ \A v \in ProxyVars : Truthy(env[v])
    /\ SpellingsAgree(env)

(***************************************************************************)
(* Two threads inside detect_and_setup_proxy at once.  os.environ is       *)
(* shared and nothing serialises the calls, so the threads interleave at   *)
(* each access to it: the two reads of the already-configured test, each   *)
(* TCP connect, and each of the four assignments.  What a candidate port   *)
(* does (accept, refuse, make the connect raise) is fixed for the run.     *)
(***************************************************************************)
Threads == {1, 2}

\* os.environ[...] = ... in the order of lines 76-79
ProxyAssignments ==
    << [var |-> "HTTP_PROXY", from |-> "http"], [var |-> "HTTPS_PROXY", from |-> "https"],
       [var |-> "http_proxy", from |-> "http"], [var |-> "https_proxy", from |-> "https"] >>

\* A thread at the first line of the function.
Entered == [pc |-> "get HTTP_PROXY", i |-> 0, n |-> 0, ok |-> FALSE]

\* A thread that executed return ok.
ReturnedWith(w, ok) == [w EXCEPT !.pc = "returned", !.ok = ok]

\* A port that serves one client only: the connect of the second thread is
\* refused.
PortAnswer_single_client(tcp, t, i) == IF t = 1 THEN tcp[i] ELSE "closed"

\* sock.connect_ex((host, port)) of thread t on candidate i
PortAnswer(tcp, t, i) == tcp[i]

InitThreads ==
    /\ env = NoEnv
    /\ endpoint = NoEndpoint
    /\ adapter = NoAdapter
    /\ last = NoCall
    /\ url = <<>>
    /\ norm = <<>>
    /\ workers \in [tcp : TcpOutcomes, th : {[t \in Threads |-> Entered]}, writes : {<<>>}]

\* os.environ.get('HTTP_PROXY'), the left operand of the or
GetHttpProxy(t) ==
    /\ workers.th[t].pc = "get HTTP_PROXY"
    /\ workers' = [workers EXCEPT !.th[t] =
                       IF Truthy(env["HTTP_PROXY"])
                       THEN ReturnedWith(@, TRUE)
                       ELSE [@ EXCEPT !.pc = "get HTTPS_PROXY"]]
    /\ UNCHANGED <<env, endpoint, adapter, last, url, norm>>

\* os.environ.get('HTTPS_PROXY'), evaluated when the left operand was falsy
GetHttpsProxy(t) ==
    /\ workers.th[t].pc = "get HTTPS_PROXY"
    /\ workers' = [workers EXCEPT !.th[t] =
                       IF Truthy(env["HTTPS_PROXY"])
                       THEN ReturnedWith(@, TRUE)
                       ELSE [@ EXCEPT !.pc = "connect", !.i = 1]]
    /\ UNCHANGED <<env, endpoint, adapter, last, url, norm>>

\* One turn of the for loop up to the test of result: an open port leads to
\* the assignments, any other outcome to the next candidate, and the end of
\* the list to return False.
Connect(t) ==
    /\ workers.th[t].pc = "connect"
    /\ workers' = [workers EXCEPT !.th[t] =
                       IF PortAnswer(workers.tcp, t, @.i) = "open"
                       THEN [@ EXCEPT !.pc = "assign", !.n = 1]
                       ELSE IF @.i = Len(proxy_configs)
                       THEN ReturnedWith(@, FALSE)
                       ELSE [@ EXCEPT !.i = @ + 1]]
    /\ UNCHANGED <<env, endpoint, adapter, last, url, norm>>

\* One of the four assignments; return True follows the fourth.
Assign(t) ==
    /\ workers.th[t].pc = "assign"
    /\ LET w == workers.th[t]
           a == ProxyAssignments[w.n]
       IN  /\ env' = [env EXCEPT ![a.var] = proxy_configs[w.i][a.from]]
           /\ workers' = [workers EXCEPT
                              !.writes = Append(@, t),
                              !.th[t] = IF w.n = Len(ProxyAssignments)
                                        THEN ReturnedWith(w, TRUE)
                                        ELSE [w EXCEPT !.n = @ + 1]]
    /\ UNCHANGED <<endpoint, adapter, last, url, norm>>

NextThreads ==
    \E t \in Threads : GetHttpProxy(t) \/ GetHttpsProxy(t) \/ Connect(t) \/ Assign(t)

SpecThreads == InitThreads /\ [][NextThreads]_vars

\* Both threads are inside or past the resolver, and both have returned.
BothReturned == \A t \in Threads : workers.th[t].pc = "returned"

====
